---- MODULE Spec2Model ----
(***************************************************************************)
(* Model of the download orchestration of myrientdownload:                 *)
(*   MyrDownloader.download_from_system_list, _download_files,             *)
(*   _download_file, _get_download_dir, _report_stat,                      *)
(*   _reset_skipped_streak, print_stats   (myrientdownload/myr_download.py)*)
(*   get_files_list                       (myrientdownload/myr_files.py)   *)
(*                                                                         *)
(* Strings that the code inspects (file names, filter terms) are tuples of *)
(* one-character strings, so that substring containment, endswith and      *)
(* Path.with_suffix are computed and not assumed.  The program is single   *)
(* threaded; pc is the position of its one thread of control.              *)
(***************************************************************************)
EXTENDS Integers, Sequences, FiniteSets, TLC

VARIABLES
    config,             \* MyrDownloader.config (game_allow_list is mutated by the run)
    remote,             \* the web server: listing page of every system, archives that are no valid zip
    fs,                 \* local files: path -> content
    dirs,               \* local directories that exist
    stats,              \* MyrDownloader.stats
    skip_streak,        \* MyrDownloader.skip_streak
    pc,                 \* position of the thread of control
    ci,                 \* index of myr_downloader in config.myrient_downloader
    si,                 \* index of system in myr_downloader.systems
    files_list,         \* local of download_from_system_list
    filtered_files,     \* local of download_from_system_list / argument of _download_files
    download_dir,       \* local of _download_files
    n_files_processed,  \* loop index of _download_files (enumerate)
    attempt,            \* loop index `_` of `for _ in range(3)`
    run,                \* which invocation of the program this is (1 or 2)
    http,               \* history: HTTP requests issued in this run
    cur,                \* history: what happened to the target being processed
    processed,          \* history: number of targets whose processing has ended in this run
    faults,             \* history: caught transfer failures injected so far
    listing_failed,     \* history: systems (ci, si) of this run whose listing fetch failed
    stale_parts,        \* history: .part files present in download_dir when the batch started
    renamed,            \* history: destinations promoted by a rename in this run
    first,              \* history: the first run's result, once a second run has started
    printed,            \* history: calls of print_stats in this run
    skip_log,           \* history: the "Skipped N existing files" lines of this run (their number, the sum of N)
    decided,            \* history: targets of the current batch whose iteration has begun
    targets,            \* history: filtered targets found in this run
    tally,              \* history: renames of a .part file, and targets ended without a transfer attempt
    config_file         \* the configuration as loaded when the program starts

vars == <<config, remote, fs, dirs, stats, skip_streak, pc, ci, si, files_list,
          filtered_files, download_dir, n_files_processed, attempt, run, http, cur,
          processed, faults, listing_failed, stale_parts, renamed, first, printed,
          skip_log, decided, targets, tally, config_file>>

(***************************************************************************)
(* Bounds of the model.                                                    *)
(***************************************************************************)
MaxSystems == 2     \* systems configured in a run
FileSize == 2       \* chunks of a remote file
MaxFaults == 3      \* caught transfer failures the network produces in the runs explored
MaxTitles == 3      \* anchors of a listing page in the runs over the filter inputs

(***************************************************************************)
(* Strings.                                                                *)
(***************************************************************************)
Range(s) == {s[i] : i \in DOMAIN s}

\* str.endswith
EndsWith(s, suffix) ==
    /\ Len(s) >= Len(suffix)
    /\ SubSeq(s, Len(s) - Len(suffix) + 1, Len(s)) = suffix

\* `term in f` on str: substring containment, case-sensitive
Contains(term, f) ==
    \E i \in 1..(Len(f) - Len(term) + 1) : SubSeq(f, i, i + Len(term) - 1) = term

DotZip == <<".", "z", "i", "p">>
DotPart == <<".", "p", "a", "r", "t">>

\* position of the last "." of a name, 0 when there is none (str.rfind, 1-based)
LastDot(name) ==
    LET dots == {i \in DOMAIN name : name[i] = "."}
    IN  IF dots = {} THEN 0 ELSE CHOOSE i \in dots : \A j \in dots : j <= i

\* PurePath.with_suffix on the final component: the old suffix starts at the last
\* dot, unless that dot leads or ends the name
WithSuffix(name, suffix) ==
    LET i == LastDot(name)
    IN  IF 1 < i /\ i < Len(name) THEN SubSeq(name, 1, i - 1) \o suffix
        ELSE name \o suffix

(***************************************************************************)
(* The listing fetcher and the filter.                                     *)
(***************************************************************************)
\* get_files_list, no exception: the titles of the anchors of the listing table
\* that are set and end in ".zip" (an anchor without title is the empty tuple)
IsListedFile(href) == href # <<>> /\ EndsWith(href, DotZip)

ParseListing(titles) == SelectSeq(titles, IsListedFile)

\* a variant that leaves the empty allow list as it is
AllowListUnchanged(game_allow_list) == game_allow_list

\* download_from_system_list: an empty allow list is replaced by ["."]
AllowListInUse(game_allow_list) ==
    IF game_allow_list = <<>> THEN << <<".">> >> ELSE game_allow_list

\* a variant in which a name with an allow term is kept whatever else it contains
KeepIfEither(f, game_allow_list, game_disallow_list) ==
    \/ \E term \in Range(game_allow_list) : Contains(term, f)
    \/ ~ \E term \in Range(game_disallow_list) : Contains(term, f)

\* the condition of the list comprehension
Keep(f, game_allow_list, game_disallow_list) ==
    /\ \E term \in Range(game_allow_list) : Contains(term, f)
    /\ ~ \E term \in Range(game_disallow_list) : Contains(term, f)

FilterFiles(files, game_allow_list, game_disallow_list) ==
    LET Kept(f) == Keep(f, game_allow_list, game_disallow_list)
    IN  SelectSeq(files, Kept)

(***************************************************************************)
(* Local files.  A directory is the tuple of its components below          *)
(* config.download_dir; a path is a directory and a file name.  A content  *)
(* records which run wrote it (0: before the first run), the bytes (in     *)
(* chunks) left from earlier openings (old), the bytes written since the   *)
(* last opening (cur), and whether the remote archive it was read from is  *)
(* a zip archive.                                                          *)
(***************************************************************************)
Path(dir, name) == [dir |-> dir, name |-> name]

Exists(f, path) == path \in DOMAIN f

Unlink(f, path) == [q \in DOMAIN f \ {path} |-> f[q]]

WriteFile(f, path, content) == (path :> content) @@ f

\* Path.rename: the target is replaced
Rename(f, from, to) == WriteFile(Unlink(f, from), to, f[from])

\* zipfile.ZipFile(path) does not raise BadZipFile: the whole archive, and only it, is there
IsZipFile(content) == content.zip /\ content.old = 0 /\ content.cur = FileSize

\* a variant that streams into the destination itself
DestinationItself(destination) == destination

\* destination.with_suffix(".part")
PartFile(destination) == Path(destination.dir, WithSuffix(destination.name, DotPart))

\* download_dir.glob("*.part")
GlobPart(f, dir) == {p \in DOMAIN f : p.dir = dir /\ EndsWith(p.name, DotPart)}

\* a directory and its parents
Parents(dir) == {SubSeq(dir, 1, k) : k \in 0..Len(dir)}

\* _get_download_dir raises ValueError
NestingError(cfg) ==
    cfg.create_and_use_database_directories /\ ~cfg.create_and_use_system_directories

\* a variant that never adds the database directory
SystemDirOnly(cfg, sys, myrient_path) ==
    IF cfg.create_and_use_system_directories THEN <<sys>> ELSE <<>>

\* _get_download_dir: the directory it returns
GetDownloadDir(cfg, sys, myrient_path) ==
    IF cfg.create_and_use_system_directories
    THEN IF cfg.create_and_use_database_directories
         THEN <<myrient_path, sys>>
         ELSE <<sys>>
    ELSE <<>>

(***************************************************************************)
(* One call of _download_file.  What the network does to it is an outcome: *)
(*   stage "get":    requests.get raises exc, nothing has been written     *)
(*   stage "status": raise_for_status raises HTTPError (non-2xx status)    *)
(*   stage "body":   iter_content raises exc after `chunks` chunks         *)
(*   stage "done":   the whole body was streamed                           *)
(***************************************************************************)
Outcomes ==
    [stage : {"get"}, exc : {"ConnectTimeout", "ReadTimeout", "ConnectionError"}, chunks : {0}]
    \cup [stage : {"status"}, exc : {"HTTPError"}, chunks : {0}]
    \cup [stage : {"body"}, exc : {"ConnectionError"}, chunks : 0..(FileSize - 1)]
    \cup [stage : {"done"}, exc : {"none"}, chunks : {FileSize}]

\* the except clause of _download_file
CaughtExceptions == {"ConnectTimeout", "ReadTimeout", "ConnectionError"}

\* destination_temp.open("wb"): the file is created or truncated
OpenPart(f, part, zip) ==
    WriteFile(f, part, [src |-> run, old |-> 0, cur |-> 0, zip |-> zip])

\* f.write(chunk), `chunks` times
WriteChunks(f, part, chunks) == [f EXCEPT ![part].cur = @ + chunks]

\* a variant that promotes the .part file although the body was cut short
RenamesPartialBody(o) == o.stage \in {"body", "done"}

\* whether _download_file reaches destination_temp.rename(destination)
ReachesRename(o) == o.stage = "done"

\* the files after _download_file(url, destination) has met outcome o
DownloadFile(f, destination, o) ==
    IF o.stage \in {"get", "status"} THEN f
    ELSE LET part == PartFile(destination)
             written == WriteChunks(OpenPart(f, part, destination.name \notin remote.invalid),
                                    part, o.chunks)
         IN  IF ReachesRename(o) THEN Rename(written, part, destination) ELSE written

\* a variant with one attempt more
AttemptsOneMore == 3 + 1

\* for _ in range(3)
Attempts == 3

(***************************************************************************)
(* Stats.                                                                  *)
(***************************************************************************)
\* destination_temp.rename(destination) is counted when the call reaches it
CountRename(t, o) == IF ReachesRename(o) THEN [t EXCEPT !.renames = @ + 1] ELSE t

\* a target whose iteration ends is counted when _download_file was not called for it
CountUnattempted(t, target) == IF target.calls = 0 THEN [t EXCEPT !.unattempted = @ + 1] ELSE t

\* _report_stat: the counters
ReportStat(st, stat) == IF stat \in DOMAIN st THEN [st EXCEPT ![stat] = @ + 1] ELSE st

\* _report_stat: the streak
ReportStreak(streak, stat) == IF stat = "skipped" THEN streak + 1 ELSE streak

NoStats == [skipped |-> 0, downloaded |-> 0, failed |-> 0]

(***************************************************************************)
(* The configuration and the position in it.                               *)
(***************************************************************************)
myr_downloader == config.myrient_downloader[ci]

system == myr_downloader.systems[si]

file_name == filtered_files[n_files_processed + 1]

output_file == Path(download_dir, file_name)

\* history of one target: the destination (a set of at most one path), the calls of
\* _download_file, the increments of each counter, whether its archive was found
\* broken, whether a failed attempt wrote bytes, whether an attempt succeeded, and
\* whether its iteration of the file loop has ended; delays counts the time.sleep(5)
\* calls with their "Retrying download" warning
NewTarget == [file |-> {}, calls |-> 0, skipped |-> 0, downloaded |-> 0, failed |-> 0,
              delays |-> 0,
              corrupt |-> FALSE, partial |-> FALSE, ok |-> FALSE, done |-> FALSE]

NoHttp == [listing |-> 0, transfer |-> 0]

NoLines == [lines |-> 0, total |-> 0]

NoTally == [renames |-> 0, unattempted |-> 0]

(***************************************************************************)
(* The inputs explored.                                                    *)
(***************************************************************************)
SystemNames == <<"NES", "SNES", "N64", "GB">>

\* file names: "U" stands for "(USA)", "D" for "Demo", "J" for "(Japan)"
GameA == <<"U">> \o DotZip
GameB == <<"U", "D">> \o DotZip
GameC == <<"J">> \o DotZip
Readme == <<"U", ".", "t", "x", "t">>

\* the titles of a listing page
Listings == { <<Readme, GameA, GameB, GameC>>, <<<<>>, GameB>> }

AllowLists == { <<>>, << <<"U">> >> }

DisallowList == << <<"D">> >>

\* how the configured systems are spread over config.myrient_downloader
SystemSplits(n) ==
    LET all == SubSeq(SystemNames, 1, n)
    IN  {<<all>>} \cup (IF n >= 2 THEN {<<SubSeq(all, 1, 1), SubSeq(all, 2, n)>>} ELSE {})

ValidZip == [src |-> 0, old |-> 0, cur |-> FileSize, zip |-> TRUE]
BrokenZip == [src |-> 0, old |-> 0, cur |-> FileSize, zip |-> FALSE]
StalePart == [src |-> 0, old |-> 0, cur |-> 1, zip |-> TRUE]

\* what a download directory holds before the first run
LocalFiles(dir, a, c, stale) ==
    (IF a = "absent" THEN <<>> ELSE Path(dir, GameA) :> (IF a = "valid" THEN ValidZip ELSE BrokenZip))
    @@ (IF c = "absent" THEN <<>> ELSE Path(dir, GameC) :> ValidZip)
    @@ (IF stale THEN Path(dir, WithSuffix(GameC, DotPart)) :> StalePart ELSE <<>>)

RECURSIVE Merge(_)
Merge(fns) ==
    IF fns = {} THEN <<>>
    ELSE LET f == CHOOSE g \in fns : TRUE IN f @@ Merge(fns \ {f})

Init ==
    /\ \E sysdirs \in BOOLEAN, dbdirs \in BOOLEAN, skip \in BOOLEAN, verify \in BOOLEAN,
          n \in 0..MaxSystems, allow \in AllowLists :
         \E split \in SystemSplits(n) :
            config = [ create_and_use_system_directories |-> sysdirs,
                       create_and_use_database_directories |-> dbdirs,
                       myrient_downloader |->
                          [k \in DOMAIN split |->
                              [ myrient_path |-> "No-Intro",
                                systems |-> split[k],
                                skip_existing |-> skip,
                                verify_zips |-> verify,
                                game_allow_list |-> allow,
                                game_disallow_list |-> DisallowList ]] ]
    /\ config_file = config
    /\ \E titles \in Listings :
          remote = [ listing |-> [s \in Range(SystemNames) |-> titles],
                     invalid |-> {GameC} ]
    /\ \E a \in {"absent", "valid", "broken"}, c \in {"absent", "valid"} :
          fs = Merge({ LocalFiles(GetDownloadDir(config, SystemNames[k], "No-Intro"), a, c, k = 1)
                        : k \in 1..MaxSystems })
    /\ dirs = UNION {Parents(p.dir) : p \in DOMAIN fs} \cup {<<>>}
    /\ stats = NoStats
    /\ skip_streak = 0
    /\ pc = "start"
    /\ ci = 0
    /\ si = 0
    /\ files_list = <<>>
    /\ filtered_files = <<>>
    /\ download_dir = <<>>
    /\ n_files_processed = 0
    /\ attempt = 0
    /\ run = 1
    /\ http = NoHttp
    /\ cur = NewTarget
    /\ processed = 0
    /\ faults = 0
    /\ listing_failed = {}
    /\ stale_parts = {}
    /\ renamed = {}
    /\ first = [started |-> FALSE]
    /\ printed = 0
    /\ skip_log = NoLines
    /\ decided = 0
    /\ targets = 0
    /\ tally = NoTally

(***************************************************************************)
(* download_from_system_list.                                              *)
(***************************************************************************)
loop_vars == <<files_list, filtered_files, download_dir, n_files_processed, attempt>>
history_vars == <<http, cur, processed, faults, listing_failed, stale_parts, renamed>>
run_vars == <<run, first, config_file, remote>>
log_vars == <<printed, skip_log, decided, targets>>

\* lines 84-85: the run starts
Start ==
    /\ pc = "start"
    /\ pc' = "for_system"
    /\ ci' = 1
    /\ si' = 0
    /\ UNCHANGED <<config, fs, dirs, stats, skip_streak, loop_vars, history_vars, run_vars>>
    /\ UNCHANGED log_vars
    /\ UNCHANGED tally

\* a variant that takes the first system of a catalog without testing for one
ForSystemFirstUnchecked ==
    /\ pc = "for_system"
    /\ IF ci > Len(config.myrient_downloader)
       THEN pc' = "print_stats" /\ UNCHANGED <<ci, si>>
       ELSE IF si < Len(myr_downloader.systems)
       THEN pc' = "get_files_list" /\ si' = si + 1 /\ UNCHANGED ci
       ELSE IF si = 0
       THEN pc' = "IndexError" /\ UNCHANGED <<ci, si>>
       ELSE pc' = "for_system" /\ ci' = ci + 1 /\ si' = 0
    /\ UNCHANGED <<config, fs, dirs, stats, skip_streak, loop_vars, history_vars, run_vars>>
    /\ UNCHANGED log_vars
    /\ UNCHANGED tally

\* lines 87-88: the two for statements take their next element
ForSystem ==
    /\ pc = "for_system"
    /\ IF ci > Len(config.myrient_downloader)
       THEN pc' = "print_stats" /\ UNCHANGED <<ci, si>>
       ELSE IF si < Len(myr_downloader.systems)
       THEN pc' = "get_files_list" /\ si' = si + 1 /\ UNCHANGED ci
       ELSE pc' = "for_system" /\ ci' = ci + 1 /\ si' = 0
    /\ UNCHANGED <<config, fs, dirs, stats, skip_streak, loop_vars, history_vars, run_vars>>
    /\ UNCHANGED log_vars
    /\ UNCHANGED tally

\* line 91, get_files_list returns the parsed listing
GetFilesList ==
    /\ pc = "get_files_list"
    /\ files_list' = ParseListing(remote.listing[system])
    /\ http' = [http EXCEPT !.listing = @ + 1]
    /\ pc' = "filter"
    /\ UNCHANGED <<config, fs, dirs, stats, skip_streak, ci, si, filtered_files, download_dir,
                   n_files_processed, attempt, cur, processed, faults, listing_failed,
                   stale_parts, renamed, run_vars>>
    /\ UNCHANGED log_vars
    /\ UNCHANGED tally

\* a variant of get_files_list without the except clause
ListingRaises == "raise"

\* what get_files_list does when the request or the parsing raises (myr_files.py 33-35)
ListingOnError == "return_empty"

\* line 91, the request or the parsing of get_files_list raises an Exception
GetFilesListError ==
    /\ pc = "get_files_list"
    /\ http' = [http EXCEPT !.listing = @ + 1]
    /\ listing_failed' = listing_failed \cup {<<ci, si>>}
    /\ IF ListingOnError = "return_empty"
       THEN files_list' = <<>> /\ pc' = "filter"
       ELSE files_list' = files_list /\ pc' = "Exception"
    /\ UNCHANGED <<config, fs, dirs, stats, skip_streak, ci, si, filtered_files, download_dir,
                   n_files_processed, attempt, cur, processed, faults,
                   stale_parts, renamed, run_vars>>
    /\ UNCHANGED log_vars
    /\ UNCHANGED tally

\* lines 93-114: the filter, and the choice between _download_files and the next system
ApplyFilters ==
    /\ pc = "filter"
    /\ config' = [config EXCEPT
                    !.myrient_downloader[ci].game_allow_list = AllowListInUse(@)]
    /\ filtered_files' = FilterFiles(files_list,
                                     config'.myrient_downloader[ci].game_allow_list,
                                     myr_downloader.game_disallow_list)
    /\ pc' = IF filtered_files' # <<>> THEN "get_download_dir" ELSE "for_system"
    /\ UNCHANGED <<fs, dirs, stats, skip_streak, ci, si, files_list, download_dir,
                   n_files_processed, attempt, history_vars, run_vars>>
    /\ targets' = targets + Len(filtered_files')
    /\ UNCHANGED <<printed, skip_log, decided>>
    /\ UNCHANGED tally

\* lines 116-118
PrintStats ==
    /\ pc = "print_stats"
    /\ pc' = "done"
    /\ UNCHANGED <<config, fs, dirs, stats, skip_streak, ci, si, loop_vars, history_vars, run_vars>>
    /\ printed' = printed + 1
    /\ UNCHANGED <<skip_log, decided, targets>>
    /\ UNCHANGED tally

(***************************************************************************)
(* _download_files.                                                        *)
(***************************************************************************)
\* line 185: _get_download_dir raises, or makes and returns the directory
GetDownloadDirStep ==
    /\ pc = "get_download_dir"
    /\ IF NestingError(config)
       THEN /\ pc' = "ValueError"
            /\ UNCHANGED <<download_dir, dirs, stale_parts>>
       ELSE /\ download_dir' = GetDownloadDir(config, system, myr_downloader.myrient_path)
            /\ dirs' = dirs \cup Parents(download_dir')
            /\ stale_parts' = GlobPart(fs, download_dir')
            /\ pc' = "sweep"
    /\ UNCHANGED <<config, fs, stats, skip_streak, ci, si, files_list, filtered_files,
                   n_files_processed, attempt, http, cur, processed, faults, listing_failed,
                   renamed, run_vars>>
    /\ UNCHANGED log_vars
    /\ UNCHANGED tally

\* a variant that sweeps config.download_dir, not the directory of the system
SweepsRoot(f, dir) == GlobPart(f, <<>>)

\* the files that lines 188-190 unlink
SweptFiles(f, dir) == GlobPart(f, dir)

\* lines 188-192: the .part files of the directory are unlinked, the file loop starts
SweepParts ==
    /\ pc = "sweep"
    /\ fs' = [p \in DOMAIN fs \ SweptFiles(fs, download_dir) |-> fs[p]]
    /\ n_files_processed' = 0
    /\ cur' = NewTarget
    /\ pc' = "verify"
    /\ UNCHANGED <<config, dirs, stats, skip_streak, ci, si, files_list, filtered_files,
                   download_dir, attempt, http, processed, faults, listing_failed,
                   stale_parts, renamed, run_vars>>
    /\ decided' = 0
    /\ UNCHANGED <<printed, skip_log, targets>>
    /\ UNCHANGED tally

\* the condition of line 197 and the BadZipFile of line 199
BrokenZipFound(f, cfg, path) ==
    /\ cfg.verify_zips
    /\ Exists(f, path)
    /\ EndsWith(path.name, DotZip)
    /\ ~IsZipFile(f[path])

\* a variant that warns about the broken archive and leaves it
KeepsBroken(f, path) == f

\* lines 201-202: the broken archive is unlinked
UnlinkBroken(f, path) == Unlink(f, path)

\* lines 194-202: the existing archive is verified, and unlinked if it is broken
VerifyZip ==
    /\ pc = "verify"
    /\ IF BrokenZipFound(fs, myr_downloader, output_file)
       THEN /\ fs' = UnlinkBroken(fs, output_file)
            /\ cur' = [NewTarget EXCEPT !.file = {output_file}, !.corrupt = TRUE]
       ELSE /\ fs' = fs
            /\ cur' = [NewTarget EXCEPT !.file = {output_file}]
    /\ pc' = "skip_check"
    /\ UNCHANGED <<config, dirs, stats, skip_streak, ci, si, loop_vars, http,
                   processed, faults, listing_failed, stale_parts, renamed, run_vars>>
    /\ decided' = decided + 1
    /\ UNCHANGED <<printed, skip_log, targets>>
    /\ UNCHANGED tally

\* a variant that skips the files that are missing
SkipsMissing(f, cfg, path) == cfg.skip_existing /\ ~Exists(f, path)

\* a variant that ignores skip_existing
NeverSkips(f, cfg, path) == FALSE

\* the condition of line 204
SkipTaken(f, cfg, path) == cfg.skip_existing /\ Exists(f, path)

\* the end of an iteration of the file loop: the next file, or line 229
\* a variant in which a target whose attempts all failed ends the batch
GivesUpBatch ==
    /\ processed' = processed + 1
    /\ IF n_files_processed + 1 < Len(filtered_files) /\ cur'.failed < Attempts
       THEN n_files_processed' = n_files_processed + 1 /\ pc' = "verify"
       ELSE n_files_processed' = n_files_processed /\ pc' = "end_batch"

EndOfTarget ==
    /\ processed' = processed + 1
    /\ IF n_files_processed + 1 < Len(filtered_files)
       THEN n_files_processed' = n_files_processed + 1 /\ pc' = "verify"
       ELSE n_files_processed' = n_files_processed /\ pc' = "end_batch"

\* lines 204-207: the file exists and is skipped
SkipExisting ==
    /\ pc = "skip_check"
    /\ SkipTaken(fs, myr_downloader, output_file)
    /\ stats' = ReportStat(stats, "skipped")
    /\ skip_streak' = ReportStreak(skip_streak, "skipped")
    /\ cur' = [cur EXCEPT !.skipped = @ + 1, !.done = TRUE]
    /\ EndOfTarget
    /\ UNCHANGED <<config, fs, dirs, ci, si, files_list, filtered_files, download_dir, attempt,
                   http, faults, listing_failed, stale_parts, renamed, run_vars>>
    /\ UNCHANGED log_vars
    /\ tally' = CountUnattempted(tally, cur')

\* a variant that logs the streak and does not reset it
KeepsStreak(streak) == streak

\* _reset_skipped_streak: the streak
ResetSkippedStreak(streak) == 0

\* _reset_skipped_streak: the line logged when the streak is positive
LogSkipped(log, streak) ==
    IF streak > 0 THEN [lines |-> log.lines + 1, total |-> log.total + streak] ELSE log

\* lines 209-222: the file is to be downloaded
StartDownload ==
    /\ pc = "skip_check"
    /\ ~SkipTaken(fs, myr_downloader, output_file)
    /\ skip_streak' = ResetSkippedStreak(skip_streak)
    /\ attempt' = 0
    /\ pc' = "download"
    /\ UNCHANGED <<config, fs, dirs, stats, ci, si, files_list, filtered_files, download_dir,
                   n_files_processed, history_vars, run_vars>>
    /\ skip_log' = LogSkipped(skip_log, skip_streak)
    /\ UNCHANGED <<printed, decided, targets>>
    /\ UNCHANGED tally

\* what _download_file does with outcome o: "True", "False" (after the except clause) or "raise"
Returns(o) ==
    IF o.exc = "none" THEN "True"
    ELSE IF o.exc \in CaughtExceptions THEN "False"
    ELSE "raise"

\* a variant that reports the caught failure as a download
CaughtAsDownloaded == "downloaded"

\* the stat that the except clause of _download_file reports (line 154)
StatOnCaught == "failed"

\* a variant without the break: after the report the loop goes on to its delay
DownloadSucceedsNoBreak ==
    /\ pc = "download"
    /\ \E o \in Outcomes :
         /\ Returns(o) = "True"
         /\ fs' = DownloadFile(fs, output_file, o)
         /\ renamed' = IF ReachesRename(o) THEN renamed \cup {output_file} ELSE renamed
         /\ tally' = CountRename(tally, o)
    /\ http' = [http EXCEPT !.transfer = @ + 1]
    /\ stats' = ReportStat(stats, "downloaded")
    /\ skip_streak' = ReportStreak(skip_streak, "downloaded")
    /\ cur' = [cur EXCEPT !.calls = @ + 1, !.downloaded = @ + 1, !.ok = TRUE]
    /\ pc' = "sleep"
    /\ UNCHANGED <<processed, n_files_processed>>
    /\ UNCHANGED <<config, dirs, ci, si, files_list, filtered_files, download_dir, attempt,
                   faults, listing_failed, stale_parts, run_vars>>
    /\ UNCHANGED log_vars

\* lines 223-225: _download_file returns True, "downloaded" is reported, the loop is left
DownloadSucceeds ==
    /\ pc = "download"
    /\ \E o \in Outcomes :
         /\ Returns(o) = "True"
         /\ fs' = DownloadFile(fs, output_file, o)
         /\ renamed' = IF ReachesRename(o) THEN renamed \cup {output_file} ELSE renamed
         /\ tally' = CountRename(tally, o)
    /\ http' = [http EXCEPT !.transfer = @ + 1]
    /\ stats' = ReportStat(stats, "downloaded")
    /\ skip_streak' = ReportStreak(skip_streak, "downloaded")
    /\ cur' = [cur EXCEPT !.calls = @ + 1, !.downloaded = @ + 1, !.ok = TRUE, !.done = TRUE]
    /\ EndOfTarget
    /\ UNCHANGED <<config, dirs, ci, si, files_list, filtered_files, download_dir, attempt,
                   faults, listing_failed, stale_parts, run_vars>>
    /\ UNCHANGED log_vars

\* line 223, lines 145-155: _download_file catches the exception, reports and returns False
DownloadFails ==
    /\ pc = "download"
    /\ faults < MaxFaults
    /\ \E o \in Outcomes :
         /\ Returns(o) = "False"
         /\ fs' = DownloadFile(fs, output_file, o)
         /\ renamed' = IF ReachesRename(o) THEN renamed \cup {output_file} ELSE renamed
         /\ tally' = CountRename(tally, o)
    /\ http' = [http EXCEPT !.transfer = @ + 1]
    /\ stats' = ReportStat(stats, StatOnCaught)
    /\ skip_streak' = ReportStreak(skip_streak, StatOnCaught)
    /\ cur' = [cur EXCEPT !.calls = @ + 1, !.failed = @ + 1,
                          !.partial = @ \/ (Exists(fs', PartFile(output_file))
                                            /\ fs'[PartFile(output_file)].cur > 0)]
    /\ faults' = faults + 1
    /\ pc' = "sleep"
    /\ UNCHANGED <<config, dirs, ci, si, files_list, filtered_files, download_dir,
                   n_files_processed, attempt, processed, listing_failed, stale_parts, run_vars>>
    /\ UNCHANGED log_vars

\* line 223: _download_file lets the exception through; it ends the run
DownloadRaises ==
    /\ pc = "download"
    /\ \E o \in Outcomes :
         /\ Returns(o) = "raise"
         /\ fs' = DownloadFile(fs, output_file, o)
         /\ pc' = o.exc
    /\ http' = [http EXCEPT !.transfer = @ + 1]
    /\ cur' = [cur EXCEPT !.calls = @ + 1]
    /\ UNCHANGED <<config, dirs, stats, skip_streak, ci, si, loop_vars, processed, faults,
                   listing_failed, stale_parts, renamed, run_vars>>
    /\ UNCHANGED log_vars
    /\ UNCHANGED tally

\* lines 226-227 and the for statement of line 222: sleep, warn, next attempt or loop end
RetrySleep ==
    /\ pc = "sleep"
    /\ attempt' = attempt + 1
    /\ IF attempt + 1 < Attempts
       THEN /\ pc' = "download"
            /\ cur' = [cur EXCEPT !.delays = @ + 1]
            /\ UNCHANGED <<processed, n_files_processed, tally>>
       ELSE /\ cur' = [cur EXCEPT !.delays = @ + 1, !.done = TRUE]
            /\ tally' = CountUnattempted(tally, cur')
            /\ EndOfTarget
    /\ UNCHANGED <<config, fs, dirs, stats, skip_streak, ci, si, files_list, filtered_files,
                   download_dir, http, faults, listing_failed, stale_parts, renamed, run_vars>>
    /\ UNCHANGED log_vars

\* line 229, and the return to the system loop
EndBatch ==
    /\ pc = "end_batch"
    /\ skip_streak' = ResetSkippedStreak(skip_streak)
    /\ pc' = "for_system"
    /\ UNCHANGED <<config, fs, dirs, stats, ci, si, loop_vars, history_vars, run_vars>>
    /\ skip_log' = LogSkipped(skip_log, skip_streak)
    /\ UNCHANGED <<printed, decided, targets>>
    /\ UNCHANGED tally

Next ==
    \/ Start
    \/ ForSystem
    \/ GetFilesList
    \/ GetFilesListError
    \/ ApplyFilters
    \/ PrintStats
    \/ GetDownloadDirStep
    \/ SweepParts
    \/ VerifyZip
    \/ SkipExisting
    \/ StartDownload
    \/ DownloadSucceeds
    \/ DownloadFails
    \/ DownloadRaises
    \/ RetrySleep
    \/ EndBatch

Spec == Init /\ [][Next]_vars

(***************************************************************************)
(* A second invocation of the program on the directory the first one left: *)
(* the process has ended (normally or by an exception), the configuration  *)
(* is loaded again, the server and the local files are as they are.        *)
(***************************************************************************)
Ended == pc \in {"done", "ValueError", "HTTPError", "Exception"}

StartSecondRun ==
    /\ run = 1
    /\ Ended
    /\ run' = 2
    /\ first' = [started |-> TRUE, pc |-> pc, stats |-> stats, renamed |-> renamed, fs |-> fs,
                 listing_failed |-> listing_failed]
    /\ config' = config_file
    /\ stats' = NoStats
    /\ skip_streak' = 0
    /\ pc' = "start"
    /\ ci' = 0
    /\ si' = 0
    /\ files_list' = <<>>
    /\ filtered_files' = <<>>
    /\ download_dir' = <<>>
    /\ n_files_processed' = 0
    /\ attempt' = 0
    /\ http' = NoHttp
    /\ cur' = NewTarget
    /\ processed' = 0
    /\ listing_failed' = {}
    /\ stale_parts' = {}
    /\ renamed' = {}
    /\ UNCHANGED <<fs, dirs, faults, remote, config_file>>
    /\ printed' = 0
    /\ skip_log' = NoLines
    /\ decided' = 0
    /\ targets' = 0
    /\ tally' = NoTally

NextTwoRuns == Next \/ StartSecondRun

InitTwoRuns ==
    /\ Init
    /\ \A k \in DOMAIN config.myrient_downloader : config.myrient_downloader[k].skip_existing
    /\ ~config.create_and_use_database_directories
    /\ Len(config.myrient_downloader) = 1
    /\ Len(config.myrient_downloader[1].systems) <= 2

SpecTwoRuns == InitTwoRuns /\ [][NextTwoRuns]_vars

(***************************************************************************)
(* Runs over many listings and filter lists: one catalog of two systems    *)
(* with the same listing, a directory per system, skip_existing on; every  *)
(* zip of the listing but GameLower is present.                            *)
(***************************************************************************)
GameLower == <<"u">> \o DotZip
ParentLink == <<"U", "/">>

FilterTitles == {GameA, GameB, GameLower, ParentLink}

FilterListings == UNION {[1..k -> FilterTitles] : k \in 0..MaxTitles}

FilterAllowLists == { <<>>, << <<"U">> >>, << <<"u">> >>, << <<"U">>, <<"u">> >> }

FilterDisallowLists == { <<>>, << <<"D">> >>, << <<"U">> >> }

InitFilter ==
    /\ \E allow \in FilterAllowLists, disallow \in FilterDisallowLists :
          config = [ create_and_use_system_directories |-> TRUE,
                     create_and_use_database_directories |-> FALSE,
                     myrient_downloader |->
                        << [ myrient_path |-> "No-Intro",
                             systems |-> SubSeq(SystemNames, 1, 2),
                             skip_existing |-> TRUE,
                             verify_zips |-> FALSE,
                             game_allow_list |-> allow,
                             game_disallow_list |-> disallow ] >> ]
    /\ config_file = config
    /\ \E titles \in FilterListings :
          remote = [ listing |-> [s \in Range(SystemNames) |-> titles], invalid |-> {} ]
    /\ fs = Merge({ Path(<<SystemNames[k]>>, GameA) :> ValidZip @@ Path(<<SystemNames[k]>>, GameB) :> ValidZip
                      : k \in 1..2 })
    /\ dirs = UNION {Parents(p.dir) : p \in DOMAIN fs} \cup {<<>>}
    /\ stats = NoStats
    /\ skip_streak = 0
    /\ pc = "start"
    /\ ci = 0
    /\ si = 0
    /\ files_list = <<>>
    /\ filtered_files = <<>>
    /\ download_dir = <<>>
    /\ n_files_processed = 0
    /\ attempt = 0
    /\ run = 1
    /\ http = NoHttp
    /\ cur = NewTarget
    /\ processed = 0
    /\ faults = 0
    /\ listing_failed = {}
    /\ stale_parts = {}
    /\ renamed = {}
    /\ first = [started |-> FALSE]
    /\ printed = 0
    /\ skip_log = NoLines
    /\ decided = 0
    /\ targets = 0
    /\ tally = NoTally

SpecFilter == InitFilter /\ [][Next]_vars

(***************************************************************************)
(* The run in which every HTTP request returns a success or one of the      *)
(* exceptions _download_file catches: no step raises HTTPError.  The        *)
(* program is one thread that always takes its next step, hence the weak    *)
(* fairness of the next-state action.                                       *)
(***************************************************************************)
NextReturns ==
    \/ Start
    \/ ForSystem
    \/ GetFilesList
    \/ GetFilesListError
    \/ ApplyFilters
    \/ PrintStats
    \/ GetDownloadDirStep
    \/ SweepParts
    \/ VerifyZip
    \/ SkipExisting
    \/ StartDownload
    \/ DownloadSucceeds
    \/ DownloadFails
    \/ RetrySleep
    \/ EndBatch

SpecReturns == Init /\ [][NextReturns]_vars /\ WF_vars(NextReturns)

(***************************************************************************)
(* Properties.                                                             *)
(***************************************************************************)
\* the position is inside the file loop of _download_files, or the run was ended there
InFileLoop == pc \in {"verify", "skip_check", "download", "sleep", "end_batch", "HTTPError"}

\* the iteration of the current target has ended without a skip and without a success
AllAttemptsFailed == cur.done /\ ~cur.ok /\ cur.skipped = 0

\* C1: _download_file is never called a 4th time for a target, and a target whose
\* attempts all ended in a caught timeout or connection error was attempted exactly
\* 3 times and is then counted as failed, not as downloaded or skipped.
C1_RetryBound ==
    /\ cur.calls <= 3
    /\ AllAttemptsFailed => /\ cur.calls = 3
                            /\ cur.failed >= 1
                            /\ cur.downloaded = 0

C1_Witness == AllAttemptsFailed /\ cur.calls = 3 /\ pc \in {"verify", "end_batch"}

\* C2: every target increments exactly one of skipped/downloaded/failed, by exactly 1,
\* so at the end of a run the three counters add up to the number of targets processed.
C2_OneOutcomePerTarget ==
    /\ cur.done => cur.skipped + cur.downloaded + cur.failed = 1
    /\ pc = "done" => stats.skipped + stats.downloaded + stats.failed = processed

\* C3: a non-2xx status of a transfer never ends the run: no HTTPError leaves _download_file.
C3_StatusErrorRetried == pc # "HTTPError"

IsPartName(path) == EndsWith(path.name, DotPart)

\* the files under a final name that this run has written
WrittenFinals == {p \in DOMAIN fs : ~IsPartName(p) /\ fs[p].src = run}

\* C4: a file present under its final name is never a partial download: whatever this
\* run has put under a final name came there by the rename, and holds the whole body
\* of one attempt and no byte of an earlier attempt.
C4_NoPartialDestination ==
    \A p \in WrittenFinals :
        /\ p \in renamed
        /\ fs[p].old = 0
        /\ fs[p].cur = FileSize

\* a target was downloaded after a failed attempt that had left bytes in its .part file
C4_Witness ==
    /\ cur.done /\ cur.ok /\ cur.partial
    /\ cur.file \subseteq WrittenFinals

\* C5: with verify_zips, a target whose local .zip is no valid archive has it unlinked
\* before the skip decision, is never counted as skipped, gets a transfer started, and
\* is counted as downloaded when an attempt succeeds.
C5_BrokenZipRedownloaded ==
    cur.corrupt =>
        /\ cur.skipped = 0
        /\ pc = "skip_check" => ~Exists(fs, output_file)
        /\ pc # "skip_check" => (pc = "download" \/ cur.calls >= 1)
        /\ cur.ok => cur.downloaded = 1

C5_Witness ==
    /\ cur.corrupt /\ cur.done /\ cur.ok /\ cur.downloaded = 1
    /\ pc \in {"verify", "end_batch"}
    /\ myr_downloader.skip_existing

\* the skip decision is due and finds skip_existing set and the destination present
SkipDue == pc = "skip_check" /\ myr_downloader.skip_existing /\ Exists(fs, output_file)

\* C6: when skip_existing is set and the destination exists after the verification,
\* the target is counted as skipped, no HTTP request is issued for it and the local
\* files stay as they are.
C6_SkipExisting ==
    [][ SkipDue => /\ stats'.skipped = stats.skipped + 1
                   /\ cur'.done /\ cur'.skipped = 1 /\ cur'.calls = 0
                   /\ http' = http
                   /\ fs' = fs ]_vars

C6_Witness ==
    /\ cur.done /\ cur.skipped = 1 /\ cur.calls = 0
    /\ cur.file \subseteq DOMAIN fs
    /\ stats.skipped >= 1

\* the position is between the sweep of a batch and its end
InBatch == pc \in {"verify", "skip_check", "download", "sleep", "end_batch"}

\* C7: every .part file that is in the directory of a system when its batch starts is
\* gone when the first verify/skip/download decision of the batch is made; the .part
\* files met during the batch are those the batch itself has written.
C7_StalePartsSwept ==
    /\ (pc = "verify" /\ n_files_processed = 0) =>
            /\ stale_parts \cap DOMAIN fs = {}
            /\ GlobPart(fs, download_dir) = {}
    /\ InBatch => \A p \in GlobPart(fs, download_dir) : fs[p].src = run

C7_Witness == pc = "verify" /\ n_files_processed = 0 /\ stale_parts # {}

\* the second run is under way or over, every catalog with skip_existing
SecondRunSkipping ==
    /\ run = 2
    /\ \A k \in DOMAIN config.myrient_downloader : config.myrient_downloader[k].skip_existing

\* the files the first run downloaded that pass the verification of the second run
Trusted ==
    {p \in first.renamed :
        /\ p \in DOMAIN first.fs
        /\ myr_downloader.verify_zips => IsZipFile(first.fs[p])}

\* C8 (as stated): the second run downloads nothing and its skipped counter ends at N,
\* the number of files the first run downloaded (both runs ending normally, every
\* listing fetched).
C8_SecondRunSkipsExactlyN ==
    (/\ SecondRunSkipping
     /\ first.pc = "done" /\ first.listing_failed = {}
     /\ pc = "done" /\ listing_failed = {}) =>
        /\ stats.downloaded = 0
        /\ stats.skipped = first.stats.downloaded

\* both runs have ended normally, with every listing fetched, and nothing is verified
BothRunsComplete ==
    /\ SecondRunSkipping
    /\ first.pc = "done" /\ first.listing_failed = {}
    /\ pc = "done" /\ listing_failed = {}
    /\ \A k \in DOMAIN config.myrient_downloader : ~config.myrient_downloader[k].verify_zips

\* C8 (amended): with skip_existing, the second run starts no transfer for a file that
\* the first run downloaded and that is a valid archive or is not verified, and counts
\* it as skipped once its iteration has ended.  When both runs end normally with every
\* listing fetched and verify_zips off, the second run skips at least N plus the first
\* run's skips; with no failed attempt in the first run it skips exactly that many
\* and downloads nothing.
C8_SecondRunSkipsDownloaded ==
    /\ (SecondRunSkipping /\ InFileLoop /\ cur.file # {} /\ cur.file \subseteq Trusted) =>
            /\ cur.calls = 0
            /\ pc \notin {"download", "sleep", "HTTPError"}
            /\ cur.done => (cur.skipped = 1 /\ cur.downloaded = 0)
    /\ BothRunsComplete =>
            /\ stats.skipped >= first.stats.downloaded + first.stats.skipped
            /\ first.stats.failed = 0 =>
                    /\ stats.skipped = first.stats.downloaded + first.stats.skipped
                    /\ stats.downloaded = 0

C8_Witness ==
    /\ SecondRunSkipping /\ InFileLoop /\ cur.file # {} /\ cur.file \subseteq Trusted
    /\ cur.done /\ cur.skipped = 1
    /\ first.stats.downloaded >= 1

\* C9: with database directories and without system directories the run ends with the
\* configuration error, and no HTTP request has been issued at any time.
C9_NestingFailsFast ==
    NestingError(config) => (http = NoHttp /\ pc # "done")

\* the systems configured in all catalogs
NumSystems ==
    LET RECURSIVE Sum(_)
        Sum(k) == IF k = 0 THEN 0 ELSE Len(config.myrient_downloader[k].systems) + Sum(k - 1)
    IN  Sum(Len(config.myrient_downloader))

\* C10: a failed listing fetch raises nothing and gives the empty list; while its
\* system is the current one the run is never inside _download_files (no outcome, no
\* transfer), and the loop goes on: a run that ends normally has fetched the listing
\* of every configured system.
C10_ListingFailureIsolated ==
    /\ pc # "Exception"
    /\ <<ci, si>> \in listing_failed =>
            /\ pc \in {"filter", "for_system"}
            /\ pc = "filter" => files_list = <<>>
            /\ cur.file = {} \/ cur.done
    /\ pc = "done" => http.listing = NumSystems

C10_Witness ==
    /\ pc = "done"
    /\ <<1, 1>> \in listing_failed
    /\ stats.downloaded >= 1

\* C11: whatever earlier transfers did (success, timeout, connection error), the
\* k-th decision of a batch is about the k-th filtered target of the listing, a batch
\* ends only when every filtered target has had its decision, and a run that ends
\* normally has finished every filtered target of every system.
C11_EveryTargetDecided ==
    /\ pc = "verify" => decided = n_files_processed
    /\ pc \in {"skip_check", "download", "sleep"} =>
            /\ decided = n_files_processed + 1
            /\ cur.file = {Path(download_dir, filtered_files[decided])}
    /\ pc = "end_batch" => decided = Len(filtered_files)
    /\ pc = "done" => processed = targets

C11_Witness ==
    /\ pc = "done"
    /\ targets >= 2
    /\ processed = targets
    /\ stats.failed >= 3
    /\ cur.ok /\ cur.failed = 0

\* C12 as stated: when every HTTP request returns, the run stops nowhere but after
\* print_stats, which it has called exactly once.
C12_AlwaysEndsWithStats ==
    \/ pc = "done" /\ printed = 1
    \/ pc # "done" /\ printed = 0 /\ ENABLED NextReturns

\* C12, amended: when every HTTP request returns, the run terminates; it ends either
\* with the ValueError of _get_download_dir (database directories without system
\* directories) or normally, and the run that ends normally has called print_stats
\* exactly once, as its last step, after the listing of every system of every catalog
\* was fetched; print_stats is called in no other run and at no other time.
C12_TerminatesWithStats ==
    /\ <>(pc \in {"done", "ValueError"})
    /\ [](pc = "ValueError" => NestingError(config))
    /\ [](printed = IF pc = "done" THEN 1 ELSE 0)
    /\ [](pc = "done" => ci > Len(config.myrient_downloader) /\ http.listing = NumSystems)

C12_Witness ==
    /\ pc = "done"
    /\ printed = 1
    /\ http.transfer >= 3
    /\ stats.downloaded = 0
    /\ stats.failed = http.transfer

\* the listing of the current system has been filtered
FilterApplied ==
    \/ pc \in {"get_download_dir", "sweep", "verify", "skip_check", "download", "sleep", "end_batch"}
    \/ pc = "for_system" /\ si >= 1 /\ ci \in DOMAIN config.myrient_downloader

HasTerm(terms, f) == \E term \in Range(terms) : Contains(term, f)

\* the filter contract on the lists of the configuration file
FilterContract(f) ==
    LET entry == config_file.myrient_downloader[ci]
    IN  /\ entry.game_allow_list = <<>> \/ HasTerm(entry.game_allow_list, f)
        /\ ~HasTerm(entry.game_disallow_list, f)

\* C13: the filtered list is the candidate list of the fetcher, in its order, reduced
\* to the names that (the configured allow list being empty, or the name containing
\* one of its terms as a case-sensitive substring) contain no disallow term.
C13_FilterContract ==
    FilterApplied => filtered_files = SelectSeq(files_list, FilterContract)

C13_Witness ==
    /\ pc = "verify"
    /\ Len(files_list) = 3 /\ Len(filtered_files) = 2
    /\ filtered_files[1] # filtered_files[2]
    /\ \E i \in 1..3 :
          LET entry == config_file.myrient_downloader[ci]
          IN  /\ HasTerm(entry.game_allow_list, files_list[i])
              /\ HasTerm(entry.game_disallow_list, files_list[i])

NoDisallowTerm(f) == ~HasTerm(config_file.myrient_downloader[ci].game_disallow_list, f)

\* C14: with an empty configured allow list the list in use is ["."], every name the
\* fetcher returned ends in ".zip" and so contains ".", and the filtered list is the
\* candidates without a disallow term, for the first and for every later system of
\* the catalog entry.
C14_EmptyAllowKeepsAll ==
    (FilterApplied /\ config_file.myrient_downloader[ci].game_allow_list = <<>>) =>
        /\ myr_downloader.game_allow_list = << <<".">> >>
        /\ \A f \in Range(files_list) : EndsWith(f, DotZip) /\ Contains(<<".">>, f)
        /\ filtered_files = SelectSeq(files_list, NoDisallowTerm)

C14_Witness ==
    /\ pc = "verify" /\ si = 2
    /\ config_file.myrient_downloader[ci].game_allow_list = <<>>
    /\ Len(files_list) = 2 /\ Len(filtered_files) = 1
    /\ ParentLink \in Range(remote.listing[system])

\* C15: the streak is the number of Skipped outcomes not yet logged; it is 0 whenever
\* a transfer attempt is under way and whenever the run is outside a batch, each
\* "Skipped N existing files" line has N >= 1, and the sum of N over the lines logged
\* so far plus the streak is the skipped counter, so that at the end of the run the
\* sum is the skipped counter.
C15_SkipStreakFlushed ==
    /\ pc \in {"download", "sleep"} => skip_streak = 0
    /\ pc \notin {"verify", "skip_check", "download", "sleep", "end_batch", "HTTPError"} => skip_streak = 0
    /\ InFileLoop => skip_streak <= decided
    /\ stats.skipped = skip_log.total + skip_streak
    /\ skip_log.lines <= skip_log.total
    /\ pc = "done" => skip_log.total = stats.skipped

C15_Witness ==
    /\ pc = "done"
    /\ skip_log = [lines |-> 2, total |-> 3]
    /\ stats.downloaded >= 1

\* the directory of the batch has been resolved
DirResolved == pc \in {"sweep", "verify", "skip_check", "download", "sleep", "end_batch"}

\* C16: below config.download_dir the directory of a batch is <database path>/<system>
\* with both flags, <system> with the system flag alone and the root itself with
\* neither flag; it exists, with its parents, from before the first file decision of
\* the batch on, and every target of the batch is <that directory>/<file name>.
C16_DestinationLayout ==
    DirResolved =>
        /\ download_dir =
              IF config.create_and_use_system_directories /\ config.create_and_use_database_directories
              THEN <<myr_downloader.myrient_path, system>>
              ELSE IF config.create_and_use_system_directories
              THEN <<system>>
              ELSE <<>>
        /\ Parents(download_dir) \subseteq dirs
        /\ (InBatch /\ cur.file # {}) =>
                cur.file = {[dir |-> download_dir, name |-> filtered_files[decided]]}

C16_Witness ==
    /\ pc = "skip_check"
    /\ config.create_and_use_system_directories /\ config.create_and_use_database_directories
    /\ download_dir = <<"No-Intro", "SNES">>
    /\ ~ \E p \in DOMAIN fs : p.dir = download_dir

\* C17: in a run without systems no request is made and no counter moves; the run
\* stops nowhere but at its normal end, having printed the statistics (and with them
\* the completion message) once.
C17_NoSystemsRun ==
    NumSystems = 0 =>
        /\ http = NoHttp
        /\ stats = NoStats
        /\ pc \in {"start", "for_system", "print_stats", "done"}
        /\ printed = IF pc = "done" THEN 1 ELSE 0
        /\ pc # "done" => ENABLED Next

C17_Witness ==
    /\ NumSystems = 0
    /\ pc = "done"
    /\ printed = 1
    /\ stats = NoStats

\* the step that increments the downloaded counter is a call of _download_file that
\* returns True for the current target, and nothing is attempted, delayed or counted
\* for a target after its success
SuccessStep ==
    /\ stats'.downloaded # stats.downloaded =>
            /\ pc = "download" /\ ~cur.ok
            /\ stats'.downloaded = stats.downloaded + 1
            /\ cur' = [cur EXCEPT !.calls = @ + 1, !.downloaded = 1, !.ok = TRUE, !.done = TRUE]
            /\ output_file \in DOMAIN fs' /\ fs'[output_file].cur = FileSize
    /\ (cur.ok /\ cur'.file = cur.file) => (cur' = cur /\ http'.transfer = http.transfer)

\* C18: the attempt that succeeds ends the iteration of its target: downloaded is
\* incremented by that attempt, once for the target, and no attempt, delay or retry
\* warning follows; downloaded is incremented by nothing but a successful attempt.
C18_SuccessEndsRetries ==
    /\ [](cur.downloaded = IF cur.ok THEN 1 ELSE 0)
    /\ [](cur.ok => cur.done /\ cur.skipped = 0 /\ cur.delays = cur.calls - 1)
    /\ [](pc \in {"download", "sleep"} => ~cur.ok)
    /\ [][SuccessStep]_vars

C18_Witness ==
    /\ cur.ok /\ cur.done
    /\ cur.calls = 2 /\ cur.delays = 1 /\ cur.downloaded = 1
    /\ pc = "verify"

\* the directory of the current system
SystemDir == GetDownloadDir(config, system, myr_downloader.myrient_path)

\* the systems of the catalogs
ConfiguredSystems ==
    UNION { {<<k, config.myrient_downloader[k].systems[j]>> : j \in DOMAIN config.myrient_downloader[k].systems}
            : k \in DOMAIN config.myrient_downloader }

\* C19: when the request for the listing of a system has been made, the directory of
\* the system exists and holds no .part file; when the run has ended normally, no
\* directory of a configured system holds a .part file left by an earlier run.
C19_SweepBeforeListing ==
    ~NestingError(config) =>
        /\ pc = "filter" => (SystemDir \in dirs /\ GlobPart(fs, SystemDir) = {})
        /\ pc = "done" =>
              \A cs \in ConfiguredSystems :
                 LET dir == GetDownloadDir(config, cs[2], config.myrient_downloader[cs[1]].myrient_path)
                 IN  \A p \in GlobPart(fs, dir) : fs[p].src # 0

\* C20: a delay with its "Retrying download" warning happens only between two
\* attempts on a target: a target that succeeded was delayed once per failed
\* attempt, a target whose 3 attempts failed was delayed twice, and no target whose
\* iteration has ended was delayed as often as it was attempted.
C20_DelaysBetweenAttempts ==
    /\ cur.ok => cur.delays = cur.failed
    /\ AllAttemptsFailed => cur.delays = 2
    /\ (cur.done /\ cur.calls >= 1) => cur.delays < cur.calls

\* what a call of _download_file does to the files under a final name: each is kept
\* as it is, or is the destination of a call that is counted as downloaded and not as
\* failed, and then holds the whole body of that call, its .part file being gone
TransferKeepsFinals ==
    pc = "download" =>
        \A p \in DOMAIN fs :
            ~IsPartName(p) =>
                /\ p \in DOMAIN fs'
                /\ \/ fs'[p] = fs[p]
                   \/ /\ p = output_file
                      /\ stats'.downloaded = stats.downloaded + 1
                      /\ stats'.failed = stats.failed
                      /\ fs'[p] = [src |-> run, old |-> 0, cur |-> FileSize,
                                   zip |-> p.name \notin remote.invalid]
                      /\ PartFile(p) \notin DOMAIN fs'

\* C21: a call of _download_file that fails (caught or not) changes no file under a
\* final name; a file under a final name is never removed by a call, and is replaced
\* only when the call succeeds, by the rename of the wholly written .part file.
C21_FailedAttemptKeepsDestination == [][TransferKeepsFinals]_vars

C21_Witness ==
    /\ pc = "sleep"
    /\ ~myr_downloader.skip_existing
    /\ cur.failed >= 1 /\ cur.partial
    /\ output_file \in DOMAIN fs /\ fs[output_file].src = 0
    /\ PartFile(output_file) \in DOMAIN fs /\ fs[PartFile(output_file)].src = run

\* no target is under way
BetweenTargets == pc \notin {"skip_check", "download", "sleep"}

StatsNonDecreasing ==
    /\ stats'.skipped >= stats.skipped
    /\ stats'.downloaded >= stats.downloaded
    /\ stats'.failed >= stats.failed

\* C22: between targets the downloaded counter is the number of renames of a .part
\* file to its final name made so far in the run, and the skipped counter is the
\* number of targets ended without a call of _download_file; no step of the run
\* lowers a counter.
C22_CountersMatchEvents ==
    /\ [](BetweenTargets => stats.downloaded = tally.renames)
    /\ [](BetweenTargets => stats.skipped = tally.unattempted)
    /\ [][StatsNonDecreasing]_vars

C22_Witness ==
    /\ pc = "done"
    /\ stats.skipped >= 1 /\ stats.failed >= 1
    /\ stats.downloaded = tally.renames
    /\ stats.skipped = tally.unattempted
    /\ tally.renames > Cardinality(renamed)

====
